---- MODULE Spec2Model ----
(***************************************************************************)
(* Model of MongoPersistence (persistence/db/mongo/__init__.py): the       *)
(* record queue, the counter, the batch threshold check of do_update, its  *)
(* retry loop, make_bulk_update and the insert branch, with a document     *)
(* store whose write calls may fail.                                       *)
(***************************************************************************)
EXTENDS Integers, Sequences, FiniteSets, TLC

\* ---------------------------------------------------------------- bounds
MaxPersist == 3      \* persist() calls in one behaviour
MaxAux == 2          \* finalize() / direct do_update() calls in one behaviour
MaxBatch == 2        \* largest configured batch_size / per-call min_batch_size
MaxRetry == 2        \* largest configured n_retry
MaxBuilt == 2        \* direct make_update_op() calls in one behaviour

\* ---------------------------------------------------------------- values
\* Python None for an optional integer argument; Some(n) is the integer n.
NoneVal == <<>>
Some(n) == <<n>>

\* math.inf as a threshold
Inf == [inf |-> TRUE, n |-> 0]
Fin(n) == [inf |-> FALSE, n |-> n]

\* configured batch_size: unset, negative, zero, positive
BatchSizes == {NoneVal} \cup {Some(n) : n \in -1..MaxBatch}
\* min_batch_size argument of do_update (and of persist through **kwds)
MinBatchArgs == {NoneVal} \cup {Some(n) : n \in -1..MaxBatch}

\* values of the local name `exc` and of raised errors
NoError == [type |-> "None", at |-> 0]
Unbound == [type |-> "<unbound>", at |-> 0]
OperationFailure(i) == [type |-> "OperationFailure", at |-> i]
BuildError(id) == [type |-> "BuildError", at |-> id]
IndexError == [type |-> "IndexError", at |-> 0]
UnboundLocalError == [type |-> "UnboundLocalError", at |-> 0]
RetNone == [type |-> "None", at |-> 0]
RetFalse == [type |-> "False", at |-> 0]
\* the `True` the docstring of do_update promises after a successful update
RetTrue == [type |-> "True", at |-> 0]

\* raw query maps: {} matches every document, {key: n} the document n
MatchAll == [all |-> TRUE, id |-> 0]
ById(n) == [all |-> FALSE, id |-> n]
Queries == {MatchAll} \cup {ById(n) : n \in 1..MaxPersist}
Matches(q, id) == q.all \/ q.id = id

\* an integer handed back by a call
IntVal(n) == [type |-> "int", at |-> n]

VARIABLES
    batch_size,   \* self.batch_size
    n_retry,      \* self.n_retry
    update,       \* self.update
    backoff_time, \* self.backoff_time
    multiple,     \* self.multiple
    upsert,       \* self.upsert
    clear_model,  \* self.clear_model
    sleeps,       \* number of blocking sleeps made by the retry loop
    coll,         \* ids of the documents in the model's collection
    droplast,     \* how the last drop_model_data call ended
    built,        \* the direct make_update_op calls and their results
    queue,        \* self.queue, a deque; index 1 is the left end
    count,        \* self.count
    pc,           \* "idle" | "loop" | "after": position inside do_update
    caller,       \* the public call do_update is running for, and whether
                  \* it passed a min_batch_size argument
    n_docs,       \* do_update local
    n_attempts,   \* do_update local
    attempt,      \* do_update local
    exc,          \* do_update local (NoError | Unbound | an error)
    log,          \* one entry per executed attempt of the retry loop
    batch,        \* ids queued when the current/last flush passed the check
    last,         \* how the last finished public call ended
    nPersist,     \* number of persist() calls made
    nAux,         \* number of finalize()/do_update() calls made
    flushes,      \* number of threshold checks passed
    phase         \* "plain": only persist() without override so far;
                  \* "finalized": those followed by exactly one finalize()

vars == <<batch_size, n_retry, update, queue, count, pc, caller, n_docs,
          n_attempts, attempt, exc, log, batch, last, nPersist, nAux,
          flushes, phase, backoff_time, multiple, upsert, clear_model,
          sleeps, coll, droplast, built>>

config == <<batch_size, n_retry, update, backoff_time, multiple, upsert,
            clear_model>>

\* ---------------------------------------------------------------- helpers
Front(q) == SubSeq(q, 1, Len(q) - 1)

RECURSIVE Ids(_)
Ids(q) == IF q = <<>> THEN <<>> ELSE <<q[1].id>> \o Ids(Tail(q))

RECURSIVE Reverse(_)
Reverse(q) == IF q = <<>> THEN <<>> ELSE Append(Reverse(Tail(q)), q[1])

\* variant: the document is pushed at the end the drain pops from
AppendLeft_Right(q, doc) == q \o <<doc>>

\* self.queue.appendleft(doc)
AppendLeft(q, doc) == <<doc>> \o q

\* ---------------------------------------------------------------- Init
\* the state after construction, whatever the configuration
Constructed ==
    /\ queue = <<>>
    /\ count = 0
    /\ pc = "idle"
    /\ caller = [op |-> "none", override |-> FALSE]
    /\ n_docs = 0
    /\ n_attempts = 0
    /\ attempt = 0
    /\ exc = NoError
    /\ log = <<>>
    /\ batch = <<>>
    /\ last = [op |-> "none", override |-> FALSE, kind |-> "none", ret |-> RetNone,
               flushed |-> FALSE]
    /\ nPersist = 0
    /\ nAux = 0
    /\ flushes = 0
    /\ phase = "plain"
    /\ sleeps = 0
    /\ coll = {}
    /\ droplast = [called |-> FALSE, query |-> MatchAll, deleted |-> 0,
                   ret |-> RetNone]
    /\ built = <<>>

\* every batching and retry configuration; the settings read only by
\* make_update_op and drop_model_data are held at one value
Init ==
    /\ batch_size \in BatchSizes
    /\ n_retry \in 0..MaxRetry
    /\ update \in BOOLEAN
    /\ backoff_time \in {0, 1}
    /\ multiple = FALSE
    /\ upsert = FALSE
    /\ clear_model = MatchAll
    /\ Constructed

\* ---------------------------------------------------------------- do_update
\* variant: only the truthiness test, without `<= 0`
NoBatchSize_TruthOnly(b) == b = NoneVal \/ b[1] = 0

\* `not self.batch_size or self.batch_size <= 0`
NoBatchSize(b) == b = NoneVal \/ b[1] = 0 \/ b[1] <= 0

\* variant: a configured batch_size wins over the per-call argument
EffectiveMin_ConfigFirst(b, mbs) ==
    IF ~(b = NoneVal \/ b[1] <= 0) THEN Fin(b[1])
    ELSE IF mbs = NoneVal THEN Inf
    ELSE IF mbs[1] <= 0 THEN Inf ELSE Fin(mbs[1])

\* do_update, resolution of min_batch_size
EffectiveMin(b, mbs) ==
    IF mbs = NoneVal
    THEN IF NoBatchSize(b) THEN Inf ELSE Fin(b[1])
    ELSE IF mbs[1] <= 0 THEN Inf ELSE Fin(mbs[1])

\* variant: the threshold compared with <= instead of <
BelowThreshold_Inclusive(n, m) == m.inf \/ n <= m.n

\* `n_docs < min_batch_size`
BelowThreshold(n, m) == m.inf \/ n < m.n

\* What the public call `op` hands back when do_update returns `ret`:
\* persist and finalize have no return statement.
Returned(op, ret) == IF op = "do_update" THEN ret ELSE RetNone

\* do_update from its entry to the threshold check, on queue q.
DoUpdateEnter(op, q, mbs) ==
    /\ n_docs' = Len(q)
    /\ IF BelowThreshold(Len(q), EffectiveMin(batch_size, mbs))
       THEN /\ pc' = "idle"
            /\ last' = [op |-> op, override |-> mbs # NoneVal, kind |-> "return",
                        ret |-> Returned(op, RetFalse), flushed |-> FALSE]
            /\ UNCHANGED <<caller, n_attempts, attempt, exc, batch, flushes>>
       ELSE /\ pc' = "loop"
            /\ caller' = [op |-> op, override |-> mbs # NoneVal]
            /\ n_attempts' = 1 + n_retry
            /\ attempt' = 0
            /\ exc' = NoError
            /\ batch' = Ids(Reverse(q))
            /\ flushes' = flushes + 1
            /\ UNCHANGED last

\* self.inc(): the counter of the base persistence class
Inc(c) == c + 1

\* variant: the counter follows the queue length instead of being increased
Persist_CountsQueue(valid, mbs) ==
    /\ pc = "idle"
    /\ nPersist < MaxPersist
    /\ nPersist' = nPersist + 1
    /\ queue' = AppendLeft(queue, [id |-> nPersist + 1, valid |-> valid])
    /\ count' = Len(queue')
    /\ DoUpdateEnter("persist", queue', mbs)
    /\ phase' = IF phase = "plain" /\ mbs = NoneVal THEN "plain" ELSE "mixed"
    /\ UNCHANGED <<config, log, nAux, sleeps, coll, droplast, built>>

\* persist(doc, **kwds)
Persist(valid, mbs) ==
    /\ pc = "idle"
    /\ nPersist < MaxPersist
    /\ nPersist' = nPersist + 1
    /\ count' = Inc(count)
    /\ queue' = AppendLeft(queue, [id |-> nPersist + 1, valid |-> valid])
    /\ DoUpdateEnter("persist", queue', mbs)
    /\ phase' = IF phase = "plain" /\ mbs = NoneVal THEN "plain" ELSE "mixed"
    /\ UNCHANGED <<config, log, nAux, sleeps, coll, droplast, built>>

\* variant: finalize() leaves the threshold to the configuration
Finalize_Configured ==
    /\ pc = "idle"
    /\ nAux < MaxAux
    /\ nAux' = nAux + 1
    /\ DoUpdateEnter("finalize", queue, NoneVal)
    /\ phase' = IF phase = "plain" THEN "finalized" ELSE "mixed"
    /\ UNCHANGED <<config, queue, count, log, nPersist, sleeps, coll,
                   droplast, built>>

\* finalize()
Finalize ==
    /\ pc = "idle"
    /\ nAux < MaxAux
    /\ nAux' = nAux + 1
    /\ DoUpdateEnter("finalize", queue, Some(1))
    /\ phase' = IF phase = "plain" THEN "finalized" ELSE "mixed"
    /\ UNCHANGED <<config, queue, count, log, nPersist, sleeps, coll,
                   droplast, built>>

\* do_update(min_batch_size) called directly
DoUpdate(mbs) ==
    /\ pc = "idle"
    /\ nAux < MaxAux
    /\ nAux' = nAux + 1
    /\ DoUpdateEnter("do_update", queue, mbs)
    /\ phase' = "mixed"
    /\ UNCHANGED <<config, queue, count, log, nPersist, sleeps, coll,
                   droplast, built>>

\* variant: the drain loop stops while one document is still queued
RECURSIVE MakeBulkOps_LeavesOne(_, _)
MakeBulkOps_LeavesOne(q, ops) ==
    IF Len(q) <= 1 THEN [queue |-> q, ops |-> ops, err |-> NoError]
    ELSE LET doc == q[Len(q)] IN
         IF ~doc.valid
         THEN [queue |-> Front(q), ops |-> ops, err |-> BuildError(doc.id)]
         ELSE MakeBulkOps_LeavesOne(Front(q), Append(ops, doc.id))

\* variant: the operation is built from the last document before it is popped
RECURSIVE MakeBulkOps_BuildThenPop(_, _)
MakeBulkOps_BuildThenPop(q, ops) ==
    IF q = <<>> THEN [queue |-> q, ops |-> ops, err |-> NoError]
    ELSE LET doc == q[Len(q)] IN
         IF ~doc.valid
         THEN [queue |-> q, ops |-> ops, err |-> BuildError(doc.id)]
         ELSE MakeBulkOps_BuildThenPop(Front(q), Append(ops, doc.id))

\* make_bulk_update: pop from the right end and build one operation per
\* document until the queue is empty or a build raises.
RECURSIVE MakeBulkOps(_, _)
MakeBulkOps(q, ops) ==
    IF q = <<>> THEN [queue |-> q, ops |-> ops, err |-> NoError]
    ELSE LET doc == q[Len(q)] IN
         IF ~doc.valid
         THEN [queue |-> Front(q), ops |-> ops, err |-> BuildError(doc.id)]
         ELSE MakeBulkOps(Front(q), Append(ops, doc.id))

\* variant: the documents are read from the right end without being popped
MakeDocs_NoPop(q, n, docs) ==
    IF n > Len(q) THEN [queue |-> q, ops |-> docs, err |-> IndexError]
    ELSE LET taken == Reverse(SubSeq(q, Len(q) - n + 1, Len(q)))
             bad == {i \in DOMAIN taken : ~taken[i].valid}
         IN IF bad # {}
            THEN [queue |-> q, ops |-> docs,
                  err |-> BuildError(taken[CHOOSE i \in bad : \A k \in bad : i <= k].id)]
            ELSE [queue |-> q, ops |-> docs \o Ids(taken), err |-> NoError]

\* [ self.model(**self.queue.pop()) for _ in range(n_docs) ]
RECURSIVE MakeDocs(_, _, _)
MakeDocs(q, n, docs) ==
    IF n = 0 THEN [queue |-> q, ops |-> docs, err |-> NoError]
    ELSE IF q = <<>> THEN [queue |-> q, ops |-> docs, err |-> IndexError]
    ELSE LET doc == q[Len(q)] IN
         IF ~doc.valid
         THEN [queue |-> Front(q), ops |-> docs, err |-> BuildError(doc.id)]
         ELSE MakeDocs(Front(q), n - 1, Append(docs, doc.id))

\* variant: the insert branch is never taken
StoreCall_BulkOnly(upd, r) ==
    IF r.err # NoError THEN "none"
    ELSE IF r.ops # <<>> THEN "bulk_write" ELSE "none"

\* variant: bulk_write is called without the `if bulk_ops` test
StoreCall_NoGuard(upd, r) ==
    IF r.err # NoError THEN "none"
    ELSE IF ~upd THEN "insert"
    ELSE "bulk_write"

\* does this attempt reach the store, and through which primitive
StoreCall(upd, r) ==
    IF r.err # NoError THEN "none"
    ELSE IF ~upd THEN "insert"
    ELSE IF r.ops # <<>> THEN "bulk_write" ELSE "none"

\* `except Exception as exc:` the name is bound inside the clause and
\* deleted when the clause ends.
ExcAfterHandler(e) == Unbound

\* the except clause builds a message and logs it; it makes no call to
\* time.sleep and never reads backoff_time
SleepsAfterHandler(n, t) == n

\* the collection after a store call that did not raise
Written(c, prim, ops) ==
    IF prim = "none" THEN c ELSE c \cup {ops[j] : j \in DOMAIN ops}

\* one iteration of `while attempt < n_attempts`
Attempt ==
    /\ pc = "loop"
    /\ attempt < n_attempts
    /\ attempt' = attempt + 1
    /\ LET r == IF update THEN MakeBulkOps(queue, <<>>)
                ELSE MakeDocs(queue, n_docs, <<>>)
           prim == StoreCall(update, r)
       IN /\ queue' = r.queue
          /\ \E ok \in BOOLEAN :
               /\ (prim = "none") => ok
               /\ LET err == IF r.err # NoError THEN r.err
                             ELSE IF ok THEN NoError
                             ELSE OperationFailure(Len(log) + 1)
                  IN /\ log' = Append(log, [flush |-> flushes,
                                            call |-> nPersist,
                                            attempt |-> attempt',
                                            prim |-> prim,
                                            ops |-> IF prim = "none" THEN <<>> ELSE r.ops,
                                            err |-> err])
                     /\ IF err = NoError
                        THEN /\ exc' = NoError
                             /\ pc' = "after"
                             /\ coll' = Written(coll, prim, r.ops)
                             /\ sleeps' = sleeps
                        ELSE /\ exc' = ExcAfterHandler(err)
                             /\ pc' = IF attempt' < n_attempts THEN "loop" ELSE "after"
                             /\ coll' = coll
                             /\ sleeps' = SleepsAfterHandler(sleeps, backoff_time)
    /\ UNCHANGED <<config, count, caller, n_docs, n_attempts, batch, last,
                   nPersist, nAux, flushes, phase, droplast, built>>

\* after the loop: `if exc: raise exc`, else log the summary and return
Finish ==
    /\ pc = "after"
    /\ pc' = "idle"
    /\ last' = IF exc = Unbound
               THEN [op |-> caller.op, override |-> caller.override, kind |-> "raise",
                     ret |-> UnboundLocalError, flushed |-> TRUE]
               ELSE IF exc # NoError
               THEN [op |-> caller.op, override |-> caller.override, kind |-> "raise",
                     ret |-> exc, flushed |-> TRUE]
               ELSE [op |-> caller.op, override |-> caller.override, kind |-> "return",
                     ret |-> Returned(caller.op, RetNone), flushed |-> TRUE]
    /\ UNCHANGED <<config, queue, count, caller, n_docs, n_attempts, attempt,
                   exc, log, batch, nPersist, nAux, flushes, phase, sleeps,
                   coll, droplast, built>>

\* ------------------------------------------------------- make_update_op
\* self.query(doc): the filter map of a document; raises when the document
\* cannot yield one
Query(doc) == [key |-> doc.id]
\* self.processor(doc): the update map of a document
Processor(doc) == [set |-> doc.id]

\* documents handed to make_update_op directly
Docs == {[id |-> 1, valid |-> v] : v \in BOOLEAN}
\* optional boolean arguments
BoolArgs == {NoneVal} \cup {Some(b) : b \in BOOLEAN}

\* variant: the running counter is written into the update document
MakeUpdateOp_Stamped(doc, m, u) ==
    IF ~doc.valid
    THEN [kind |-> "BuildError", filter |-> [key |-> 0], update |-> [set |-> 0],
          upsert |-> FALSE]
    ELSE [kind |-> IF (IF m = NoneVal THEN multiple ELSE m[1])
                   THEN "UpdateMany" ELSE "UpdateOne",
          filter |-> Query(doc),
          update |-> [set |-> doc.id + count],
          upsert |-> IF u = NoneVal THEN upsert ELSE u[1]]

\* make_update_op(doc, multiple, upsert)
MakeUpdateOp(doc, m, u) ==
    IF ~doc.valid
    THEN [kind |-> "BuildError", filter |-> [key |-> 0], update |-> [set |-> 0],
          upsert |-> FALSE]
    ELSE [kind |-> IF (IF m = NoneVal THEN multiple ELSE m[1])
                   THEN "UpdateMany" ELSE "UpdateOne",
          filter |-> Query(doc),
          update |-> Processor(doc),
          upsert |-> IF u = NoneVal THEN upsert ELSE u[1]]

\* a direct call of make_update_op
MakeUpdateOpCall(doc, m, u) ==
    /\ pc = "idle"
    /\ Len(built) < MaxBuilt
    /\ built' = Append(built, [doc |-> doc, multiple |-> m, upsert |-> u,
                               op |-> MakeUpdateOp(doc, m, u)])
    /\ UNCHANGED <<config, queue, count, pc, caller, n_docs, n_attempts,
                   attempt, exc, log, batch, last, nPersist, nAux, flushes,
                   phase, sleeps, coll, droplast>>

\* ------------------------------------------------------- drop_model_data
\* `if query is None: query = self.clear_model`
ResolveQuery(query, cm) == IF query = NoneVal THEN cm ELSE query[1]

\* the base class calls the callable it is given and returns its result
SuperDropModelData(result) == IntVal(result)

\* drop_model_data ends with the call of the base method, without `return`
DropReturn(r) == RetNone

\* drop_model_data(query) with a mapping query
DropModelData(query) ==
    /\ pc = "idle"
    /\ nAux < MaxAux
    /\ nAux' = nAux + 1
    /\ LET q == ResolveQuery(query, clear_model)
           gone == {id \in coll : Matches(q, id)}
       IN /\ coll' = coll \ gone
          /\ droplast' = [called |-> TRUE, query |-> q,
                          deleted |-> Cardinality(gone),
                          ret |-> DropReturn(SuperDropModelData(Cardinality(gone)))]
    /\ phase' = "mixed"
    /\ UNCHANGED <<config, queue, count, pc, caller, n_docs, n_attempts,
                   attempt, exc, log, batch, last, nPersist, flushes,
                   sleeps, built>>

Next ==
    \/ \E valid \in BOOLEAN, mbs \in MinBatchArgs : Persist(valid, mbs)
    \/ Finalize
    \/ \E mbs \in MinBatchArgs : DoUpdate(mbs)
    \/ Attempt
    \/ Finish

Spec == Init /\ [][Next]_vars

\* make_update_op called between persist() and finalize() calls, for every
\* multiple / upsert setting, in update mode without retry
InitOps ==
    /\ batch_size \in {NoneVal, Some(MaxBatch)}
    /\ n_retry = 0
    /\ update = TRUE
    /\ backoff_time = 0
    /\ multiple \in BOOLEAN
    /\ upsert \in BOOLEAN
    /\ clear_model = MatchAll
    /\ Constructed

NextOps ==
    \/ Persist(TRUE, NoneVal)
    \/ Finalize
    \/ Attempt
    \/ Finish
    \/ \E doc \in Docs, m \in BoolArgs, u \in BoolArgs : MakeUpdateOpCall(doc, m, u)

SpecOps == InitOps /\ [][NextOps]_vars

\* drop_model_data called between persist() and finalize() calls, for every
\* clear_model map, without retry
InitDrop ==
    /\ batch_size \in {NoneVal} \cup {Some(n) : n \in 1..MaxBatch}
    /\ n_retry = 0
    /\ update \in BOOLEAN
    /\ backoff_time = 0
    /\ multiple = FALSE
    /\ upsert = FALSE
    /\ clear_model \in Queries
    /\ Constructed

NextDrop ==
    \/ Persist(TRUE, NoneVal)
    \/ Finalize
    \/ Attempt
    \/ Finish
    \/ \E query \in {NoneVal} \cup {Some(q) : q \in Queries} : DropModelData(query)

SpecDrop == InitDrop /\ [][NextDrop]_vars


\* ---------------------------------------------------------------- history
\* attempts that reached the store
StoreCalls == {i \in DOMAIN log : log[i].prim # "none"}
\* the store never raised so far
StoreNeverFailed == \A i \in DOMAIN log : log[i].err.type # "OperationFailure"
\* every store call so far raised
StoreAlwaysFailed == \A i \in StoreCalls : log[i].err.type = "OperationFailure"
\* every document passed to persist so far can be turned into an operation
AllValid ==
    /\ \A i \in DOMAIN queue : queue[i].valid
    /\ \A i \in DOMAIN log : log[i].err.type # "BuildError"
\* positions <<i, j>> at which document id was handed to the store
Submissions(id) ==
    {p \in UNION {{<<i, j>> : j \in DOMAIN log[i].ops} : i \in StoreCalls} :
        log[p[1]].ops[p[2]] = id}
\* ids n+1 .. n+k in order
Range(n, k) == [j \in 1..k |-> n + j]

\* ---------------------------------------------------------------- claims

\* C1: with a store that always succeeds (and records that can all be
\* turned into operations), for any configured batch_size, when finalize()
\* has ended after the persist() calls, the queue is empty and every
\* persisted record was submitted to the store exactly once.
C1_FinalizeSubmitsEachOnce ==
    (pc = "idle" /\ last.op = "finalize" /\ StoreNeverFailed /\ AllValid) =>
        /\ queue = <<>>
        /\ \A id \in 1..nPersist : Cardinality(Submissions(id)) = 1

C1_Witness ==
    /\ pc = "idle" /\ last.op = "finalize" /\ last.flushed
    /\ StoreNeverFailed /\ AllValid
    /\ nPersist = 3 /\ Len(log) = 2 /\ batch_size = Some(2)

\* C2: with batch_size = B > 0, a store that always succeeds and only
\* persist() calls without override, N calls cause exactly N \div B flushes,
\* the j-th made of the B records (j-1)*B+1 .. j*B and triggered by persist
\* call number j*B; a following finalize() adds one flush holding the
\* N % B remaining records iff that remainder is not zero.
C2_FlushCount ==
    (/\ pc = "idle" /\ phase \in {"plain", "finalized"}
     /\ batch_size # NoneVal /\ batch_size[1] > 0
     /\ StoreNeverFailed /\ AllValid) =>
        LET B == batch_size[1]
            N == nPersist
            auto == N \div B
            rest == IF phase = "finalized" /\ N % B # 0 THEN 1 ELSE 0
        IN /\ Len(log) = auto + rest
           /\ flushes = auto + rest
           /\ \A j \in 1..auto :
                /\ j \in StoreCalls
                /\ log[j].ops = Range((j - 1) * B, B)
                /\ log[j].call = j * B
           /\ rest = 1 =>
                /\ Len(log) \in StoreCalls
                /\ log[Len(log)].ops = Range(auto * B, N % B)
                /\ last.op = "finalize" /\ last.flushed

C2_Witness ==
    /\ pc = "idle" /\ phase = "finalized"
    /\ batch_size = Some(2) /\ nPersist = 3 /\ Len(log) = 2
    /\ StoreNeverFailed /\ AllValid

\* entries of the retry loop of the flush that passed the check last
ThisFlush == {i \in DOMAIN log : log[i].flush = flushes}
\* a call has ended after a flush
FlushEnded == pc = "idle" /\ last.flushed

\* C3: with n_retry = R and a store whose bulk-write always fails, a flush
\* that passed the threshold check has called bulk-write exactly R + 1
\* times when it gives up.
C3_RetryCallCount ==
    (FlushEnded /\ update /\ AllValid /\ StoreAlwaysFailed) =>
        Cardinality(ThisFlush \cap StoreCalls) = n_retry + 1

\* C4: when every attempt of a flush failed, the call raises exactly the
\* error of the last failed attempt.
C4_RaisesLastError ==
    (/\ FlushEnded /\ AllValid
     /\ Cardinality(ThisFlush) = n_attempts
     /\ \A i \in ThisFlush : log[i].err # NoError) =>
        /\ last.kind = "raise"
        /\ last.ret = log[Len(log)].err

\* C5: every retry attempt re-submits the batch: what attempt k > 1 of a
\* flush sends to the store is what attempt 1 of that flush sent.
C5_RetryResubmitsBatch ==
    \A i, k \in DOMAIN log :
        (/\ log[i].flush = log[k].flush
         /\ log[i].attempt = 1 /\ i \in StoreCalls
         /\ log[k].attempt > 1) =>
            /\ log[k].prim = log[i].prim
            /\ log[k].ops = log[i].ops

\* C6: a flush ends in a normal return only if a store write holding all
\* records of the batch completed without error.
C6_NoErrorSwallowed ==
    (FlushEnded /\ last.kind = "return" /\ AllValid) =>
        \E i \in ThisFlush \cap StoreCalls :
            /\ log[i].err = NoError
            /\ log[i].ops = batch

\* a call that flushed raised iff the last attempt of its loop failed
NoCallRaised ==
    \A i \in DOMAIN log :
        log[i].err # NoError => (i < Len(log) /\ log[i + 1].flush = log[i].flush)

\* C7: no record is dropped silently: as long as no call has raised, each
\* record passed to persist() is still queued or was part of a store write
\* that succeeded.
C7_NoSilentDrop ==
    (pc = "idle" /\ NoCallRaised /\ AllValid) =>
        \A id \in 1..nPersist :
            \/ \E i \in DOMAIN queue : queue[i].id = id
            \/ \E p \in Submissions(id) : log[p[1]].err = NoError

\* C8: the counter equals the number of persist() calls made, in every
\* state: across flushes, finalize() and do_update() calls, for every
\* batch size and whether or not calls raise.
C8_CounterCountsPersists == count = nPersist

C8_Witness ==
    /\ pc = "idle" /\ count = 3 /\ flushes >= 2 /\ nAux >= 1
    /\ ~StoreNeverFailed

\* C9 as stated: finalize() forces a flush whatever the queue size.
C9_FinalizeAlwaysFlushes ==
    (pc = "idle" /\ last.op = "finalize") => last.flushed

\* C9 amended: finalize() flushes iff at least one record is queued,
\* whatever batch_size is, and with the configured retry policy.
C9_FinalizeThresholdOne ==
    (pc = "idle" /\ last.op = "finalize") =>
        /\ last.flushed <=> n_docs >= 1
        /\ last.flushed => (n_attempts = 1 + n_retry /\ Len(batch) = n_docs)

C9_Witness ==
    /\ pc = "idle" /\ last.op = "finalize" /\ last.flushed
    /\ batch_size = Some(2) /\ n_docs = 1

\* C10: with batch_size zero, negative or unset, a persist() call without
\* override never enters a flush and so never writes to the store, however
\* many records are queued; finalize() does flush them.
C10_NoAutoFlush ==
    (batch_size = NoneVal \/ batch_size[1] <= 0) =>
        /\ pc # "idle" => ~(caller.op = "persist" /\ ~caller.override)
        /\ (pc = "idle" /\ last.op = "persist" /\ ~last.override) =>
              (~last.flushed /\ queue # <<>>)
        /\ phase = "plain" => (log = <<>> /\ Len(queue) = nPersist)
        /\ (pc = "idle" /\ phase = "finalized" /\ nPersist > 0) => last.flushed

C10_Witness ==
    /\ pc = "idle" /\ batch_size = Some(-1)
    /\ last.op = "persist" /\ ~last.override
    /\ Len(queue) = 3 /\ log = <<>>

\* C11: persist() and do_update() return a boolean telling whether the call
\* flushed: true after a flush that succeeded, false when the threshold was
\* not met.
C11_ReturnsFlushed ==
    (pc = "idle" /\ last.op \in {"persist", "do_update"} /\ last.kind = "return") =>
        last.ret = IF last.flushed THEN RetTrue ELSE RetFalse

\* C12: in insert mode bulk-write is never called, and the insert-many call
\* of a flush of N queued records carries exactly those N records, one
\* model instance per record; the first attempt of a flush whose records
\* can all be constructed makes that call.
C12_InsertMode ==
    ~update =>
        /\ \A i \in DOMAIN log : log[i].prim # "bulk_write"
        /\ \A i \in ThisFlush :
             /\ log[i].prim = "insert" =>
                  (log[i].ops = batch /\ Len(log[i].ops) = Len(batch))
             /\ (log[i].attempt = 1 /\ log[i].err.type # "BuildError") =>
                  log[i].prim = "insert"

C12_Witness ==
    /\ ~update /\ pc = "idle" /\ last.flushed /\ last.kind = "return"
    /\ Len(batch) = 2
    /\ \E i \in ThisFlush : log[i].prim = "insert" /\ log[i].ops = batch

\* attempts that are retries
Retries == {i \in DOMAIN log : log[i].attempt > 1}

\* C13: with backoff_time > 0 one blocking sleep separates every failed
\* attempt from the attempt that follows it, so every retry attempt was
\* preceded by a sleep; with backoff_time = 0 there is no sleep.
C13_BackoffBetweenAttempts ==
    AllValid => sleeps = IF backoff_time > 0 THEN Cardinality(Retries) ELSE 0

\* C14: an error raised while building the operation of a queued record is
\* surfaced at once and not retried: no further attempt of that flush
\* follows it, whatever n_retry is.
C14_BuildErrorNotRetried ==
    \A i \in DOMAIN log :
         log[i].err.type = "BuildError" =>
            (i = Len(log) \/ log[i + 1].flush # log[i].flush)

\* C15: when a call that flushed has returned or raised, the queue holds
\* all the records it held when the flush began, or none of them.
C15_NoPartialTruncation ==
    FlushEnded => (queue = <<>> \/ Ids(Reverse(queue)) = batch)

\* C16: after a call raised because its flush failed for good, the queue
\* is empty (the drained records are not restored); whatever failed before,
\* a later flush hands the store only records persisted after those of
\* every earlier flush.
C16_FailedBatchNotRestored ==
    AllValid =>
        /\ (FlushEnded /\ last.kind = "raise") => queue = <<>>
        /\ \A i, k \in StoreCalls :
             log[i].flush < log[k].flush =>
                \A a \in DOMAIN log[i].ops, b \in DOMAIN log[k].ops :
                    log[i].ops[a] < log[k].ops[b]

C16_Witness ==
    /\ AllValid /\ pc = "idle" /\ n_retry = 0
    /\ Len(log) = 2
    /\ log[1].err.type = "OperationFailure" /\ log[1].ops = <<1, 2>>
    /\ log[2].err = NoError /\ log[2].ops = <<3>> /\ log[2].flush = 2

\* C18: the operations of one store call are in the order in which their
\* records were passed to persist(), oldest first.
C18_OldestFirst ==
    \A i \in StoreCalls :
        \A a, b \in DOMAIN log[i].ops :
            a < b => log[i].ops[a] < log[i].ops[b]

C18_Witness ==
    /\ pc = "idle"
    /\ \E i \in StoreCalls : log[i].ops = <<1, 2, 3>>

\* C17: drop_model_data with a mapping query (explicit, or clear_model when
\* none is passed) deletes the documents matching that map and returns the
\* number of deleted documents.
C17_DropReturnsCount ==
    droplast.called => droplast.ret = IntVal(droplast.deleted)

C20_OverrideWins ==
    [][\A mbs \in {Some(n) : n \in 1..MaxBatch} :
          ((\E valid \in BOOLEAN : Persist(valid, mbs)) \/ DoUpdate(mbs)) =>
              (pc' = "loop" <=> Len(queue') >= mbs[1])]_vars

C20_Witness ==
    /\ pc = "idle" /\ last.op = "persist" /\ last.override /\ last.flushed
    /\ batch_size = Some(0) /\ Len(batch) = 2

\* C21: do_update called with a non-positive min_batch_size has no minimal
\* size: it proceeds with the records that are queued instead of returning
\* without an update.
C21_NonPositiveProceeds ==
    [][\A mbs \in {Some(n) : n \in -1..0} :
          (DoUpdate(mbs) /\ queue # <<>>) => pc' = "loop"]_vars

\* C22: with batch_size = B > 0 and only persist() calls without override,
\* whenever a persist() call has returned or raised the queue holds fewer
\* than B records, whatever store or build failures happened and whatever
\* n_retry is.
C22_FlushInline ==
    (/\ pc = "idle" /\ phase = "plain" /\ nPersist > 0
     /\ batch_size # NoneVal /\ batch_size[1] > 0) =>
        Len(queue) < batch_size[1]

C22_Witness ==
    /\ pc = "idle" /\ phase = "plain" /\ batch_size = Some(2)
    /\ last.op = "persist" /\ last.kind = "raise"
    /\ Len(queue) = 1
    /\ \E i \in DOMAIN log : log[i].err.type = "BuildError"

\* C23: in update mode every bulk-write call carries at least one
\* operation, also for finalize() on an empty queue and for the retry
\* attempts that find the queue drained.
C23_NoEmptyBulkWrite ==
    update =>
        /\ \A i \in DOMAIN log :
             log[i].prim = "bulk_write" => Len(log[i].ops) >= 1
        /\ (pc = "idle" /\ last.op = "finalize" /\ n_docs = 0) => ~last.flushed

C23_Witness ==
    /\ update /\ pc = "idle"
    /\ \E i, k \in DOMAIN log :
         /\ log[i].flush = log[k].flush
         /\ log[i].prim = "bulk_write" /\ log[i].err.type = "OperationFailure"
         /\ log[k].attempt > 1 /\ log[k].prim = "none" /\ log[k].err = NoError

====
